---- MODULE Spec2Model ----
(***************************************************************************)
(* Model of garmin_mcp_server.py: the module-level configuration, the      *)
(* session bootstrapper init_api, the start-up sequence of main and the    *)
(* list_activities tool.  The Garmin client, garth, the file system and    *)
(* the upstream provider are the environment: each call into them has the  *)
(* outcomes (return or exception class) fixed by the environment variables *)
(* chosen in Init.                                                         *)
(***************************************************************************)
EXTENDS Integers, Sequences, FiniteSets, TLC

VARIABLES
    email,          \* os.environ.get("GARMIN_EMAIL")
    password,       \* os.environ.get("GARMIN_PASSWORD")
    mcp_mode,       \* bool(os.getenv("MCP_MODE"))
    tokenstore_fs,  \* what lies at the token-store path
    base64_fs,      \* what lies at the portable-token path
    restore,        \* environment: outcome of garmin.login(tokenstore)
    upstream,       \* environment: outcome of garmin.login() with credentials
    fs_fail,        \* environment: the file-system call that raises OSError
    tokenstore_0,   \* the token-store path as the process found it
    base64_0,       \* the portable-token path as the process found it
    pc,             \* position in main / init_api
    garmin,         \* init_api's local client object
    garmin_client,  \* main's handle, the value init_api returned
    stdout,         \* what was written to standard output, in order
    io,             \* network and file-system calls made so far, in order
    exc,            \* the exception that left main uncaught, or None
    exit_status,    \* process exit status, -1 while running
    configured,     \* number of modules whose configure returned
    registered,     \* number of modules whose register_tools returned
    calls,          \* list_activities invocations served
    last_result     \* what the last list_activities call returned

env  == <<email, password, mcp_mode, restore, upstream, fs_fail,
          tokenstore_0, base64_0>>
vars == <<email, password, mcp_mode, tokenstore_fs, base64_fs, restore,
          upstream, fs_fail, tokenstore_0, base64_0, pc, garmin, garmin_client, stdout, io, exc,
          exit_status, configured, registered, calls, last_result>>

---------------------------------------------------------------------------
(* Bounds of the model *)
MaxCalls == 2       \* list_activities invocations explored
MaxLimit == 2       \* largest limit argument / list returned upstream
MaxOut == 2         \* longest standard output a direct send_mcp_error extends

(* Program constants *)
NumModules == 11    \* the domain modules configured and registered by main
ErrorCode == -32000 \* JSON-RPC error code of send_mcp_error

---------------------------------------------------------------------------
(* Values *)
None == "None"                       \* Python None, an unset variable
EnvValues == {None, "", "1"}         \* unset, set but empty, set
Emails == {None, "", "user@example.com"}
Passwords == {None, "", "secret"}

OldSession == "s0"                   \* the session a prior run stored
NewSessions == {"s1", "s2"}          \* sessions the upstream may issue

\* Python truthiness of an Optional[str]: None and "" are falsy.
Truthy(v) == v # None /\ v # ""

StoreKinds == {"absent", "empty", "valid", "expired", "malformed", "unreadable"}

\* Outcomes of garmin.login(tokenstore) for each content of the token store.
RestoreOutcomes(kind) ==
    CASE kind \in {"absent", "empty"} -> {"FileNotFoundError"}
      [] kind = "valid"               -> {"ok"}
      [] kind = "expired"             -> {"GarthHTTPError",
                                          "GarminConnectAuthenticationError",
                                          "HTTPError"}
      [] kind = "malformed"           -> {"JSONDecodeError"}
      [] kind = "unreadable"          -> {"PermissionError"}

\* Outcomes of garmin.login() with email and password.
LoginOutcomes == {"ok", "GarthHTTPError", "GarminConnectAuthenticationError",
                  "HTTPError", "ConnectionError"}

FsCalls == {"makedirs", "dump", "open"}

NoClient == [kind |-> "none", session |-> None, logged_in |-> FALSE]

\* No list_activities call has returned yet.
NoResult == [text |-> "", count |-> 0, entries |-> <<>>]

---------------------------------------------------------------------------
(* Standard output *)
JsonLine(msg) == [kind |-> "json", code |-> ErrorCode, message |-> msg]
TextLine(msg) == [kind |-> "text", code |-> 0, message |-> msg]

StdoutPrint(out, msg) == Append(out, TextLine(msg))

SendMcpError_always(out, msg) == Append(out, JsonLine(msg))
SendMcpError(out, msg) ==
    IF mcp_mode THEN Append(out, JsonLine(msg)) ELSE out

\* if mcp_mode: send_mcp_error(error_msg) else: print(error_msg)
Report_print(out, msg) == StdoutPrint(out, msg)
Report(out, msg) ==
    IF mcp_mode THEN SendMcpError(out, msg) ELSE StdoutPrint(out, msg)

MissingMsg == "GARMIN_EMAIL and GARMIN_PASSWORD environment variables must be set"
AuthMsg(e) == "Authentication error: " \o e
InitFailedMsg == "Failed to initialize Garmin Connect client"
InitOkMsg == "Garmin Connect client initialized successfully."
StoredMsg == "Oauth tokens stored for future use.\n"
ConfigureMsg(e) == "Failed to configure modules: " \o e
RegisterMsg(e) == "Failed to register tools: " \o e

---------------------------------------------------------------------------
(* Exception routing of init_api *)
InnerCaught_broad == {"FileNotFoundError", "GarthHTTPError", "JSONDecodeError",
                      "PermissionError"}
InnerCaught == {"FileNotFoundError", "GarthHTTPError"}

OuterCaught == {"GarthHTTPError", "GarminConnectAuthenticationError", "HTTPError"}

MissingCredentials_emailOnly(e, p) == ~Truthy(e)
MissingCredentials(e, p) == ~Truthy(e) \/ ~Truthy(p)

TokenLoginFirst_always == TRUE
TokenLoginFirst == ~mcp_mode

\* try: garmin.login(tokenstore); return garmin
\* except (FileNotFoundError, GarthHTTPError): fall back; the outer handler
\* takes what the inner one lets through.
RestoreRoute_noReuse(r) ==
    CASE r = "ok" \/ r \in InnerCaught -> "fallback"
      [] r \in OuterCaught             -> "auth_failed"
      [] OTHER                         -> "crash"
RestoreRoute(r) ==
    CASE r = "ok"          -> "return"
      [] r \in InnerCaught -> "fallback"
      [] r \in OuterCaught -> "auth_failed"
      [] OTHER             -> "crash"

\* garmin.login() inside the outer try.
LoginRoute_swallow(r) ==
    CASE r = "ConnectionError" -> "crash"
      [] OTHER                 -> "continue"
LoginRoute(r) ==
    CASE r = "ok"          -> "continue"
      [] r \in OuterCaught -> "auth_failed"
      [] OTHER             -> "crash"

\* if not garmin_client
BootstrapFailed_never(client) == FALSE
BootstrapFailed(client) == client = NoClient

Call(op, result) == [op |-> op, result |-> result]

\* An exception no handler of init_api or main catches: the process dies.
Crash(e) ==
    /\ pc' = "crashed"
    /\ exc' = e
    /\ exit_status' = 1

\* except (GarthHTTPError, GarminConnectAuthenticationError, HTTPError):
\* report and return None.
AuthFailed_retry(e) ==
    /\ stdout' = Report(stdout, AuthMsg(e))
    /\ garmin_client' = NoClient
    /\ pc' = "init_api"
    /\ UNCHANGED <<exc, exit_status>>
AuthFailed(e) ==
    /\ stdout' = Report(stdout, AuthMsg(e))
    /\ garmin_client' = NoClient
    /\ pc' = "init_done"
    /\ UNCHANGED <<exc, exit_status>>

\* The portable-token file after open(path, "w") and write(blob).
WriteText_append(file, blob) ==
    [exists |-> TRUE, content |-> Append(file.content, blob)]
WriteText(file, blob) == [exists |-> TRUE, content |-> <<blob>>]

\* garth.dumps(): the single-blob encoding of a session.
Dumps(session) == "b64:" \o session

\* os.makedirs(token_dir, exist_ok=True)
Makedirs(store) ==
    IF store.kind = "absent" THEN [store EXCEPT !.kind = "empty"] ELSE store

\* garth.dump(tokenstore)
Dump(store, session) == [kind |-> "valid", session |-> session]

---------------------------------------------------------------------------
(* Initial state: the module-level configuration has been read, main is    *)
(* about to call init_api(email, password).                                *)
Init ==
    /\ email \in Emails
    /\ password \in Passwords
    /\ \E m \in EnvValues : mcp_mode = Truthy(m)
    /\ \E k \in StoreKinds :
          /\ tokenstore_fs = [kind |-> k,
                              session |-> IF k \in {"absent", "empty"}
                                          THEN None ELSE OldSession]
          /\ restore \in RestoreOutcomes(k)
    /\ base64_fs \in {[exists |-> FALSE, content |-> <<>>],
                      [exists |-> TRUE, content |-> <<Dumps(OldSession)>>]}
    /\ tokenstore_0 = tokenstore_fs
    /\ base64_0 = base64_fs
    /\ upstream \in LoginOutcomes
    /\ fs_fail \in FsCalls \cup {None}
    /\ pc = "init_api"
    /\ garmin = NoClient
    /\ garmin_client = NoClient
    /\ stdout = <<>>
    /\ io = <<>>
    /\ exc = None
    /\ exit_status = -1
    /\ configured = 0
    /\ registered = 0
    /\ calls = 0
    /\ last_result = NoResult

---------------------------------------------------------------------------
(* init_api *)

\* if not email or not password: report, return None
InitApi_CheckCredentials ==
    /\ pc = "init_api"
    /\ IF MissingCredentials(email, password)
       THEN /\ stdout' = Report(stdout, MissingMsg)
            /\ garmin_client' = NoClient
            /\ pc' = "init_done"
       ELSE /\ pc' = IF TokenLoginFirst THEN "token_login" ELSE "mcp_login"
            /\ UNCHANGED <<stdout, garmin_client>>
    /\ UNCHANGED <<env, tokenstore_fs, base64_fs, garmin, io, exc, exit_status,
                   configured, registered, calls, last_result>>

\* garmin = Garmin(email=..., password=...); garmin.login()
PasswordLogin(next) ==
    /\ io' = Append(io, Call("login_password", upstream))
    /\ LET route == LoginRoute(upstream) IN
       CASE route = "continue" ->
              /\ \E s \in NewSessions :
                    garmin' = [kind |-> "password",
                               session |-> IF upstream = "ok" THEN s ELSE None,
                               logged_in |-> upstream = "ok"]
              /\ pc' = next
              /\ UNCHANGED <<stdout, garmin_client, exc, exit_status>>
         [] route = "auth_failed" ->
              /\ garmin' = [kind |-> "password", session |-> None,
                            logged_in |-> FALSE]
              /\ AuthFailed(upstream)
         [] OTHER ->
              /\ garmin' = [kind |-> "password", session |-> None,
                            logged_in |-> FALSE]
              /\ Crash(upstream)
              /\ UNCHANGED <<stdout, garmin_client>>
    /\ UNCHANGED <<env, tokenstore_fs, base64_fs, configured, registered,
                   calls, last_result>>

\* token_dir = os.path.expanduser(tokenstore); os.makedirs(token_dir, exist_ok=True)
MakeTokenDir(next) ==
    /\ IF fs_fail = "makedirs"
       THEN /\ io' = Append(io, Call("makedirs", "PermissionError"))
            /\ Crash("PermissionError")
            /\ UNCHANGED tokenstore_fs
       ELSE /\ io' = Append(io, Call("makedirs", "ok"))
            /\ tokenstore_fs' = Makedirs(tokenstore_fs)
            /\ pc' = next
            /\ UNCHANGED <<exc, exit_status>>
    /\ UNCHANGED <<env, base64_fs, garmin, garmin_client, stdout, configured,
                   registered, calls, last_result>>

InitApi_McpLogin ==
    /\ pc = "mcp_login"
    /\ PasswordLogin("mcp_makedirs")

InitApi_McpMakedirs ==
    /\ pc = "mcp_makedirs"
    /\ MakeTokenDir("mcp_dump")

\* garmin.garth.dump(tokenstore); return garmin
InitApi_McpDump ==
    /\ pc = "mcp_dump"
    /\ IF fs_fail = "dump"
       THEN /\ io' = Append(io, Call("dump", "PermissionError"))
            /\ Crash("PermissionError")
            /\ UNCHANGED <<tokenstore_fs, garmin_client>>
       ELSE /\ io' = Append(io, Call("dump", "ok"))
            /\ tokenstore_fs' = Dump(tokenstore_fs, garmin.session)
            /\ garmin_client' = garmin
            /\ pc' = "init_done"
            /\ UNCHANGED <<exc, exit_status>>
    /\ UNCHANGED <<env, base64_fs, garmin, stdout, configured, registered,
                   calls, last_result>>

\* garmin = Garmin(); garmin.login(tokenstore); return garmin
InitApi_TokenLogin ==
    /\ pc = "token_login"
    /\ io' = Append(io, Call("login_tokenstore", restore))
    /\ LET route == RestoreRoute(restore) IN
       CASE route = "return" ->
              /\ garmin' = [kind |-> "token", session |-> tokenstore_fs.session,
                            logged_in |-> TRUE]
              /\ garmin_client' = garmin'
              /\ pc' = "init_done"
              /\ UNCHANGED <<stdout, exc, exit_status>>
         [] route = "fallback" ->
              /\ garmin' = [kind |-> "token", session |-> None,
                            logged_in |-> FALSE]
              /\ pc' = "fallback_login"
              /\ UNCHANGED <<stdout, garmin_client, exc, exit_status>>
         [] route = "auth_failed" ->
              /\ garmin' = [kind |-> "token", session |-> None,
                            logged_in |-> FALSE]
              /\ AuthFailed(restore)
         [] OTHER ->
              /\ garmin' = [kind |-> "token", session |-> None,
                            logged_in |-> FALSE]
              /\ Crash(restore)
              /\ UNCHANGED <<stdout, garmin_client>>
    /\ UNCHANGED <<env, tokenstore_fs, base64_fs, configured, registered,
                   calls, last_result>>

InitApi_FallbackLogin ==
    /\ pc = "fallback_login"
    /\ PasswordLogin("fallback_makedirs")

InitApi_FallbackMakedirs_skipDump ==
    /\ pc = "fallback_makedirs"
    /\ MakeTokenDir("fallback_write")
InitApi_FallbackMakedirs ==
    /\ pc = "fallback_makedirs"
    /\ MakeTokenDir("fallback_dump")

\* garmin.garth.dump(tokenstore)
InitApi_FallbackDump ==
    /\ pc = "fallback_dump"
    /\ IF fs_fail = "dump"
       THEN /\ io' = Append(io, Call("dump", "PermissionError"))
            /\ Crash("PermissionError")
            /\ UNCHANGED tokenstore_fs
       ELSE /\ io' = Append(io, Call("dump", "ok"))
            /\ tokenstore_fs' = Dump(tokenstore_fs, garmin.session)
            /\ pc' = "fallback_write"
            /\ UNCHANGED <<exc, exit_status>>
    /\ UNCHANGED <<env, base64_fs, garmin, garmin_client, stdout, configured,
                   registered, calls, last_result>>

\* token_base64 = garmin.garth.dumps()
\* with open(dir_path, "w") as token_file: token_file.write(token_base64)
InitApi_FallbackWriteBase64 ==
    /\ pc = "fallback_write"
    /\ IF fs_fail = "open"
       THEN /\ io' = Append(io, Call("open_w", "PermissionError"))
            /\ Crash("PermissionError")
            /\ UNCHANGED base64_fs
       ELSE /\ io' = Append(io, Call("open_w", "ok"))
            /\ base64_fs' = WriteText(base64_fs, Dumps(garmin.session))
            /\ pc' = "fallback_notice"
            /\ UNCHANGED <<exc, exit_status>>
    /\ UNCHANGED <<env, tokenstore_fs, garmin, garmin_client, stdout,
                   configured, registered, calls, last_result>>

\* print("Oauth tokens stored for future use."); return garmin
InitApi_FallbackNotice_stale ==
    /\ pc = "fallback_notice"
    /\ stdout' = StdoutPrint(stdout, StoredMsg)
    /\ garmin_client' = [kind |-> "token", session |-> None,
                        logged_in |-> FALSE]
    /\ pc' = "init_done"
    /\ UNCHANGED <<env, tokenstore_fs, base64_fs, garmin, io, exc, exit_status,
                   configured, registered, calls, last_result>>
InitApi_FallbackNotice ==
    /\ pc = "fallback_notice"
    /\ stdout' = StdoutPrint(stdout, StoredMsg)
    /\ garmin_client' = garmin
    /\ pc' = "init_done"
    /\ UNCHANGED <<env, tokenstore_fs, base64_fs, garmin, io, exc, exit_status,
                   configured, registered, calls, last_result>>

---------------------------------------------------------------------------
(* main *)

\* sys.exit(1)
Exit(status) ==
    /\ pc' = "exited"
    /\ exit_status' = status

\* return from main: the interpreter ends with status 0
Return ==
    /\ pc' = "returned"
    /\ exit_status' = 0

\* garmin_client = init_api(email, password); if not garmin_client: ...
Main_CheckClient ==
    /\ pc = "init_done"
    /\ IF BootstrapFailed(garmin_client)
       THEN IF mcp_mode
            THEN /\ stdout' = SendMcpError(stdout, InitFailedMsg)
                 /\ Exit(1)
            ELSE /\ Return
                 /\ UNCHANGED stdout
       ELSE /\ stdout' = IF ~mcp_mode THEN StdoutPrint(stdout, InitOkMsg)
                         ELSE stdout
            /\ pc' = "configure"
            /\ UNCHANGED exit_status
    /\ UNCHANGED <<env, tokenstore_fs, base64_fs, garmin, garmin_client, io,
                   exc, configured, registered, calls, last_result>>

\* except Exception as e: report; sys.exit(1) in MCP mode, return otherwise
StartupFailed_continue(msg) ==
    /\ stdout' = Report(stdout, msg)
    /\ UNCHANGED <<pc, exit_status>>
StartupFailed(msg) ==
    IF mcp_mode
    THEN /\ stdout' = SendMcpError(stdout, msg)
         /\ Exit(1)
    ELSE /\ stdout' = StdoutPrint(stdout, msg)
         /\ Return

\* <module>.configure(garmin_client), one module per step, in source order
Main_Configure_skipLast ==
    /\ pc = "configure"
    /\ configured < NumModules
    /\ \E raised \in BOOLEAN :
          IF raised
          THEN /\ StartupFailed(ConfigureMsg("RuntimeError"))
               /\ UNCHANGED configured
          ELSE /\ configured' = configured + 1
               /\ pc' = IF configured + 1 >= NumModules - 1 THEN "register"
                         ELSE "configure"
               /\ UNCHANGED <<stdout, exit_status>>
    /\ UNCHANGED <<env, tokenstore_fs, base64_fs, garmin, garmin_client, io,
                   exc, registered, calls, last_result>>
Main_Configure ==
    /\ pc = "configure"
    /\ configured < NumModules
    /\ \E raised \in BOOLEAN :
          IF raised
          THEN /\ StartupFailed(ConfigureMsg("RuntimeError"))
               /\ UNCHANGED configured
          ELSE /\ configured' = configured + 1
               /\ pc' = IF configured + 1 = NumModules THEN "register"
                         ELSE "configure"
               /\ UNCHANGED <<stdout, exit_status>>
    /\ UNCHANGED <<env, tokenstore_fs, base64_fs, garmin, garmin_client, io,
                   exc, registered, calls, last_result>>

\* app = FastMCP(...); app = <module>.register_tools(app), one module per step
Main_Register ==
    /\ pc = "register"
    /\ registered < NumModules
    /\ \E raised \in BOOLEAN :
          IF raised
          THEN /\ StartupFailed(RegisterMsg("RuntimeError"))
               /\ UNCHANGED registered
          ELSE /\ registered' = registered + 1
               /\ pc' = IF registered + 1 = NumModules THEN "run"
                         ELSE "register"
               /\ UNCHANGED <<stdout, exit_status>>
    /\ UNCHANGED <<env, tokenstore_fs, base64_fs, garmin, garmin_client, io,
                   exc, configured, calls, last_result>>

\* @app.tool() list_activities; app.run()
Main_Run ==
    /\ pc = "run"
    /\ pc' = "serving"
    /\ UNCHANGED <<env, tokenstore_fs, base64_fs, garmin, garmin_client,
                   stdout, io, exc, exit_status, configured, registered,
                   calls, last_result>>

\* app.run() returns when the transport closes; main then returns
Main_RunReturns ==
    /\ pc = "serving"
    /\ Return
    /\ UNCHANGED <<env, tokenstore_fs, base64_fs, garmin, garmin_client,
                   stdout, io, exc, configured, registered, calls,
                   last_result>>

---------------------------------------------------------------------------
(* The list_activities tool *)

\* An upstream activity: each field may be missing, and activityType may
\* be present but null, on which .get('typeKey') raises AttributeError.
Activities ==
    {[activityName |-> "Morning Run", activityType |-> "dict",
      typeKey |-> "running", startTimeLocal |-> "2025-01-01 07:00:00",
      activityId |-> "1001"],
     [activityName |-> None, activityType |-> "missing", typeKey |-> None,
      startTimeLocal |-> None, activityId |-> None],
     [activityName |-> "Ride", activityType |-> "null", typeKey |-> None,
      startTimeLocal |-> "2025-01-02 18:00:00", activityId |-> "1002"]}

\* dict.get(key, 'Unknown')
GetOr(v) == IF v = None THEN "Unknown" ELSE v

FormatActivity(idx, a) ==
    [idx |-> idx, name |-> GetOr(a.activityName), type |-> GetOr(a.typeKey),
     date |-> GetOr(a.startTimeLocal), id |-> GetOr(a.activityId)]

\* activity.get('activityType', {}).get('typeKey', 'Unknown') on a null
FormatRaises(acts) == \E i \in DOMAIN acts : acts[i].activityType = "null"

\* The text list_activities returns for the list get_activities returned.
FormatActivities(acts) ==
    IF Len(acts) = 0
    THEN [text |-> "No activities found.", count |-> 0, entries |-> <<>>]
    ELSE [text |-> "Last activities:", count |-> Len(acts),
          entries |-> [i \in 1..Len(acts) |-> FormatActivity(i, acts[i])]]

ErrorMsg(e) == "Error retrieving activities: " \o e

ErrorResult(e) == [text |-> ErrorMsg(e), count |-> 0, entries |-> <<>>]

SeqsUpTo(S, n) == UNION {[1..k -> S] : k \in 0..n}

\* except Exception as e: send_mcp_error in MCP mode; return error_msg
ToolFailed_uncaught(e) ==
    /\ Crash(e)
    /\ UNCHANGED <<last_result, stdout>>
ToolFailed(e) ==
    /\ last_result' = ErrorResult(e)
    /\ stdout' = IF mcp_mode THEN SendMcpError(stdout, ErrorMsg(e)) ELSE stdout
    /\ UNCHANGED <<pc, exc, exit_status>>

\* async def list_activities(limit: int = 5) -> str
ListActivities ==
    /\ pc = "serving"
    /\ calls < MaxCalls
    /\ calls' = calls + 1
    /\ \E limit \in 0..MaxLimit :
          \/ \E acts \in SeqsUpTo(Activities, limit) :
                IF FormatRaises(acts)
                THEN ToolFailed("AttributeError")
                ELSE /\ last_result' = FormatActivities(acts)
                     /\ UNCHANGED <<stdout, pc, exc, exit_status>>
          \/ ToolFailed("ConnectionError")
    /\ UNCHANGED <<env, tokenstore_fs, base64_fs, garmin, garmin_client,
                   io, configured, registered>>

---------------------------------------------------------------------------
Next ==
    \/ InitApi_CheckCredentials
    \/ InitApi_McpLogin
    \/ InitApi_McpMakedirs
    \/ InitApi_McpDump
    \/ InitApi_TokenLogin
    \/ InitApi_FallbackLogin
    \/ InitApi_FallbackMakedirs
    \/ InitApi_FallbackDump
    \/ InitApi_FallbackWriteBase64
    \/ InitApi_FallbackNotice
    \/ Main_CheckClient
    \/ Main_Configure
    \/ Main_Register
    \/ Main_Run
    \/ Main_RunReturns
    \/ ListActivities

Spec == Init /\ [][Next]_vars

\* send_mcp_error called by any caller with any message, at any time.
DirectSendMcpError ==
    /\ Len(stdout) < MaxOut
    /\ \E msg \in {InitFailedMsg, ErrorMsg("ConnectionError")} :
          stdout' = SendMcpError(stdout, msg)
    /\ UNCHANGED <<env, tokenstore_fs, base64_fs, pc, garmin, garmin_client,
                   io, exc, exit_status, configured, registered, calls,
                   last_result>>

NextSend == Next \/ DirectSendMcpError

SpecSend == Init /\ [][NextSend]_vars

---------------------------------------------------------------------------
(* Vocabulary of the properties *)

CredsMissing == email \in {None, ""} \/ password \in {None, ""}
CredsPresent == ~CredsMissing

Attempted(op) == \E i \in DOMAIN io : io[i].op = op
Succeeded(op) == \E i \in DOMAIN io : io[i] = Call(op, "ok")

WriteOps == {"makedirs", "dump", "open_w"}
NoWrite ==
    /\ \A i \in DOMAIN io : io[i].op \notin WriteOps
    /\ tokenstore_fs = tokenstore_0
    /\ base64_fs = base64_0

InInitApi == pc \in {"init_api", "mcp_login", "mcp_makedirs", "mcp_dump",
                      "token_login", "fallback_login", "fallback_makedirs",
                      "fallback_dump", "fallback_write", "fallback_notice"}

Authenticated == ~InInitApi /\ pc # "crashed" /\ garmin_client.logged_in

JsonLines == {i \in DOMAIN stdout : stdout[i].kind = "json"}
Printed(msg) == \E i \in DOMAIN stdout : stdout[i].message = msg

---------------------------------------------------------------------------
\* C1: whenever the identity or the secret is absent or empty, in either
\* mode, init_api makes no network call and no file-system call at any
\* point of the run, returns no handle, and has reported the missing
\* credentials as soon as it has returned.
C1_MissingCredentialsNoIO ==
    CredsMissing =>
        /\ io = <<>>
        /\ NoWrite
        /\ garmin_client = NoClient
        /\ pc \in {"init_api", "init_done", "exited", "returned"}
        /\ pc # "init_api" =>
              /\ Len(stdout) >= 1
              /\ stdout[1].message = MissingMsg

C1_Witness ==
    /\ email = ""
    /\ password = "secret"
    /\ mcp_mode
    /\ pc = "exited"

\* C2: in automated mode with credentials present, whatever the token store
\* holds, the first external call of init_api is the password login and the
\* token store is never read.
C2_AutomatedFreshLogin ==
    (mcp_mode /\ CredsPresent) =>
        /\ ~Attempted("login_tokenstore")
        /\ pc \notin {"init_api", "mcp_login"} =>
              /\ Len(io) >= 1
              /\ io[1].op = "login_password"

C2_Witness ==
    /\ mcp_mode
    /\ tokenstore_0.kind = "valid"
    /\ pc = "init_done"
    /\ garmin_client.kind = "password"
    /\ garmin_client.logged_in

\* C3: in interactive mode, when the restoration is rejected upstream (HTTP
\* error or authentication-rejected error), init_api goes on to the password
\* login and nothing is reported about the rejection.
C3_RejectedRestoreFallsBack ==
    (/\ ~mcp_mode
     /\ CredsPresent
     /\ restore \in {"GarthHTTPError", "HTTPError",
                     "GarminConnectAuthenticationError"}
     /\ pc \notin {"init_api", "token_login"}) =>
        /\ pc = "fallback_login" \/ Attempted("login_password")
        /\ Len(io) = 1 => stdout = <<>>

\* C4: in automated mode, a run that ends on a bootstrap failure or a
\* configuration failure has written exactly one structured notification.
C4_ExactlyOneNotification ==
    (/\ mcp_mode
     /\ \/ pc = "exited"
        \/ pc = "crashed" /\ exc = "ConnectionError") =>
        Cardinality(JsonLines) = 1

\* C5: in interactive mode a token store that is present but malformed or
\* unreadable makes init_api end on the store's own exception, not on the
\* authentication failure path, with no password login and no write.
C5_CorruptStoreSurfaces ==
    (/\ ~mcp_mode
     /\ CredsPresent
     /\ tokenstore_0.kind \in {"malformed", "unreadable"}
     /\ pc \notin {"init_api", "token_login"}) =>
        /\ pc = "crashed"
        /\ exc = restore
        /\ exc \notin OuterCaught
        /\ stdout = <<>>
        /\ garmin_client = NoClient
        /\ ~Attempted("login_password")
        /\ NoWrite

C5_Witness ==
    /\ ~mcp_mode
    /\ tokenstore_0.kind = "malformed"
    /\ pc = "crashed"
    /\ exc = "JSONDecodeError"

\* C6: in interactive mode a token store that restores ends init_api in
\* Authenticated with the restored client, no password login and both paths
\* as they were.
C6_PureRestoreNoWrite ==
    (/\ ~mcp_mode
     /\ CredsPresent
     /\ tokenstore_0.kind = "valid"
     /\ pc \notin {"init_api", "token_login"}) =>
        /\ Authenticated
        /\ garmin_client.kind = "token"
        /\ garmin_client.session = tokenstore_0.session
        /\ io = <<Call("login_tokenstore", "ok")>>
        /\ NoWrite

C6_Witness ==
    /\ ~mcp_mode
    /\ tokenstore_0.kind = "valid"
    /\ base64_0.exists
    /\ pc = "serving"
    /\ garmin_client.kind = "token"

\* What C7 promises once init_api has returned.
FallbackPersisted ==
    /\ Authenticated
    /\ garmin_client.kind = "password"
    /\ Attempted("login_tokenstore")
    /\ Succeeded("login_password")
    /\ tokenstore_fs = [kind |-> "valid", session |-> garmin_client.session]
    /\ base64_fs = [exists |-> TRUE,
                    content |-> <<Dumps(garmin_client.session)>>]
    /\ Printed(StoredMsg)

C8_NoPortableInAutomated ==
    mcp_mode => (base64_fs = base64_0 /\ ~Attempted("open_w"))

C8_Witness ==
    /\ mcp_mode
    /\ pc = "init_done"
    /\ garmin_client.logged_in
    /\ tokenstore_fs # tokenstore_0
    /\ base64_fs = base64_0

\* C9: every write call follows a password login that succeeded in the same
\* run, and a run whose password login failed has written nothing.
C9_WritesOnlyAfterLogin ==
    /\ \A i \in DOMAIN io :
          io[i].op \in WriteOps =>
              \E j \in 1..(i - 1) : io[j] = Call("login_password", "ok")
    /\ (Attempted("login_password") /\ upstream # "ok") => NoWrite
    /\ ~Succeeded("login_password") => NoWrite

C9_Witness ==
    /\ ~mcp_mode
    /\ tokenstore_0.kind = "absent"
    /\ upstream = "GarminConnectAuthenticationError"
    /\ Attempted("login_password")
    /\ pc = "returned"

\* C10: configure, register_tools and the server loop are reached only with
\* the handle of a bootstrap that ended in Authenticated; after a failed
\* bootstrap nothing is configured, registered or run.
C10_NoStartupWithoutHandle ==
    /\ (pc \in {"configure", "register", "run", "serving"}
           \/ configured > 0 \/ registered > 0) =>
          /\ garmin_client # NoClient
          /\ garmin_client.logged_in
          /\ garmin_client.session # None
    /\ (~InInitApi /\ garmin_client = NoClient) =>
          /\ configured = 0
          /\ registered = 0
          /\ pc \in {"init_done", "exited", "returned", "crashed"}

C10_Witness ==
    /\ mcp_mode
    /\ upstream = "GarthHTTPError"
    /\ pc = "exited"
    /\ configured = 0
    /\ Printed(InitFailedMsg)

\* C11 as claimed: in automated mode a start-up that does not reach the
\* server loop ends the process with a non-zero status after at least one
\* structured notification, and a run that returned normally went through
\* the whole start-up.
C11_AutomatedFailureFatal ==
    mcp_mode =>
        /\ pc \in {"exited", "crashed"} =>
              /\ exit_status >= 1
              /\ JsonLines # {}
              /\ stdout[Len(stdout)].kind = "json"
        /\ pc = "returned" =>
              (configured = NumModules /\ registered = NumModules)

\* C12: while the mode is automated every line on standard output is a
\* structured notification: no plain text is ever printed.
C12_AutomatedOnlyStructured ==
    mcp_mode => \A i \in DOMAIN stdout :
                    /\ stdout[i].kind = "json"
                    /\ stdout[i].code = ErrorCode

C12_Witness ==
    /\ mcp_mode
    /\ pc = "exited"
    /\ configured = 2
    /\ Len(stdout) = 1
    /\ stdout[1] = JsonLine(ConfigureMsg("RuntimeError"))

\* C13 as claimed: once init_api is over, either main holds an
\* authenticated handle, or init_api returned None after writing a cause;
\* no exception leaves init_api.
C13_TwoOutcomes ==
    ~InInitApi =>
        \/ /\ garmin_client # NoClient
           /\ garmin_client.logged_in
           /\ exc = None
        \/ /\ garmin_client = NoClient
           /\ exc = None
           /\ pc # "crashed"
           /\ Len(stdout) >= 1

LoginOps == {"login_password", "login_tokenstore"}
CountOp(op) == Cardinality({i \in DOMAIN io : io[i].op = op})

\* C14: in one run the password login is attempted at most once and the
\* restoration at most once, the restoration never follows the password
\* login, and a failed password login is the last external call.
C14_NoRetry ==
    /\ CountOp("login_password") <= 1
    /\ CountOp("login_tokenstore") <= 1
    /\ \A i \in DOMAIN io :
          io[i].op = "login_tokenstore" => i = 1
    /\ \A i \in DOMAIN io :
          (io[i].op = "login_password" /\ io[i].result # "ok") =>
              /\ i = Len(io)
              /\ NoWrite

C14_Witness ==
    /\ ~mcp_mode
    /\ restore = "FileNotFoundError"
    /\ upstream = "HTTPError"
    /\ io = <<Call("login_tokenstore", "FileNotFoundError"),
              Call("login_password", "HTTPError")>>
    /\ pc = "returned"

\* C15: init_api is entered once and never again; the handle main holds
\* does not change after init_api; the modules are configured one at a
\* time, all of them before the first register_tools, and all are
\* registered before the server loop starts.
C15_Order ==
    /\ configured \in 0..NumModules
    /\ registered \in 0..NumModules
    /\ (registered > 0 \/ pc \in {"register", "run", "serving"}) =>
          configured = NumModules
    /\ (calls > 0 \/ pc \in {"run", "serving"}) => registered = NumModules
    /\ pc = "configure" => registered = 0

C15_Step ==
    /\ configured' \in {configured, configured + 1}
    /\ registered' \in {registered, registered + 1}
    /\ pc # "init_api" => pc' # "init_api"
    /\ ~InInitApi => garmin_client' = garmin_client
    /\ (pc' = "serving" /\ pc # "serving") => pc = "run"
    /\ (pc' = "configure" /\ pc # "configure") => pc = "init_done"

\* C15 (formula): the order holds in every state and every step keeps it.
C15_StartupOrder == []C15_Order /\ [][C15_Step]_vars

C15_Witness ==
    /\ pc = "serving"
    /\ configured = NumModules
    /\ registered = NumModules
    /\ garmin_client.logged_in

FailureReported ==
    Printed(ConfigureMsg("RuntimeError")) \/ Printed(RegisterMsg("RuntimeError"))

\* C16: once a configure or register_tools call has failed, the failure is
\* the last line written (structured in automated mode, plain text in
\* interactive mode), the run is over with modules left unconfigured or
\* unregistered, the server loop was not started, and nothing happens
\* afterwards.
C16_Reported ==
    FailureReported =>
        /\ pc \in {"exited", "returned"}
        /\ registered < NumModules
        /\ calls = 0
        /\ Printed(ConfigureMsg("RuntimeError")) =>
              (configured < NumModules /\ registered = 0)
        /\ stdout[Len(stdout)].message \in {ConfigureMsg("RuntimeError"),
                                            RegisterMsg("RuntimeError")}
        /\ stdout[Len(stdout)].kind = IF mcp_mode THEN "json" ELSE "text"
        /\ mcp_mode => exit_status = 1

\* C16 (formula): the report holds in every state where a failure was
\* reported, and no step leaves such a state.
C16_ConfigurationFailureFatal == []C16_Reported /\ [][~FailureReported]_vars

C16_Witness ==
    /\ ~mcp_mode
    /\ pc = "returned"
    /\ configured = NumModules
    /\ registered = 3
    /\ Printed(RegisterMsg("RuntimeError"))

\* C17: every opening of the portable-token file directly follows a
\* successful directory creation and a successful dump of the same run, and
\* the notice is printed only when both paths hold the new session.
C17_StoreBeforePortable ==
    /\ \A i \in DOMAIN io :
          io[i].op = "open_w" =>
              /\ i >= 3
              /\ io[i - 2] = Call("makedirs", "ok")
              /\ io[i - 1] = Call("dump", "ok")
    /\ base64_fs # base64_0 => Succeeded("dump")
    /\ Printed(StoredMsg) =>
          /\ Succeeded("makedirs")
          /\ Succeeded("dump")
          /\ Succeeded("open_w")
          /\ tokenstore_fs.kind = "valid"
          /\ base64_fs.content = <<Dumps(tokenstore_fs.session)>>

C17_Witness ==
    /\ ~mcp_mode
    /\ pc = "init_done"
    /\ Printed(StoredMsg)
    /\ tokenstore_0.kind = "expired"

\* C18: a handle main holds is logged in, and it is the client of the last
\* login call of the run, which succeeded: the password client when the
\* last login was the password login, the token client otherwise.
C18_HandleIsLastLogin ==
    garmin_client # NoClient =>
        /\ garmin_client.logged_in
        /\ garmin_client.session # None
        /\ \E i \in DOMAIN io :
              /\ io[i].op \in LoginOps
              /\ io[i].result = "ok"
              /\ \A j \in DOMAIN io : j > i => io[j].op \notin LoginOps
              /\ garmin_client.kind =
                    IF io[i].op = "login_password" THEN "password" ELSE "token"

C18_Witness ==
    /\ ~mcp_mode
    /\ restore = "GarthHTTPError"
    /\ pc = "configure"
    /\ garmin_client.kind = "password"
    /\ garmin.kind = "password"

\* C19: in interactive mode standard output never holds a structured
\* notification, whoever calls send_mcp_error and with whatever message
\* (checked with send_mcp_error also called directly, SpecSend).
C19_InteractiveNoStructured ==
    ~mcp_mode => \A i \in DOMAIN stdout : stdout[i].kind = "text"

C19_Witness ==
    /\ ~mcp_mode
    /\ calls = 1
    /\ last_result = ErrorResult("ConnectionError")
    /\ stdout = <<TextLine(InitOkMsg)>>

ResultTexts ==
    {"No activities found.", "Last activities:",
     ErrorMsg("ConnectionError"), ErrorMsg("AttributeError")}

\* C20: while serving, every list_activities call returns one of the three
\* texts, no exception ends the process, and a further call can be served as
\* long as the server runs, also after a call whose upstream failed.
C20_Served ==
    /\ calls > 0 =>
          /\ last_result.text \in ResultTexts
          /\ last_result.text = "Last activities:" =>
                (last_result.count = Len(last_result.entries)
                   /\ last_result.count >= 1)
          /\ pc \in {"serving", "returned"}
          /\ exc = None
          /\ garmin_client.logged_in
    /\ (pc = "serving" /\ calls < MaxCalls) => ENABLED ListActivities

C20_Step ==
    pc = "serving" =>
        /\ garmin_client' = garmin_client
        /\ garmin' = garmin
        /\ pc' \in {"serving", "returned"}

\* C20 (formula): the above in every state, and no step taken while
\* serving changes the shared handle or ends on an exception.
C20_ListActivitiesTotal == []C20_Served /\ [][C20_Step]_vars

C20_Witness ==
    /\ mcp_mode
    /\ pc = "serving"
    /\ calls = 2
    /\ stdout = <<JsonLine(ErrorMsg("ConnectionError"))>>
    /\ last_result.text = "Last activities:"
    /\ last_result.count = 2

====
